---- MODULE Spec2Model ----
(***************************************************************************)
(* The chunked map-reduce pipeline of the coastal_change and               *)
(* water_detection applications (apps/<app>/tasks.py): the run() chain     *)
(* parse -> validate -> chunk -> start, the fan-out of processing_task     *)
(* over (geo chunk, time chunk), the chord barriers in front of            *)
(* recombine_geographic_chunks and recombine_time_chunks, and              *)
(* create_output_products.  Workers share the task record (a database      *)
(* row) and the task's temporary directory.                                *)
(***************************************************************************)
EXTENDS Integers, Sequences, FiniteSets, TLC

\* ------------------------------------------------------------------ bounds
MaxGeo == 2         \* geographic chunks of a plan
MaxTime == 2        \* time chunks of a plan
MaxWindow == 2      \* configured temporal chunk size
MaxWork == 3        \* cap on total_scenes plus redeliveries
MaxRedeliver == 2   \* redeliveries of processing_task messages per task
MaxPlanTime == 11   \* time chunks fed to recombine_time_chunks on its own
MaxFoldTime == 3    \* time chunks folded by the water time stage on its own
MaxSteps == 4       \* cap on the acquisition dates of the water time stage
MaxYears == 4       \* calendar years of a coastal_change time range
MaxPlanGeo == 12    \* geographic chunks of a plan whose paths are compared

\* ----------------------------------------------------------- characters
\* Paths are sequences of character codes, so that str() and the string
\* order used by sorted() are computed and not assumed.
CharZero == 48
CharDot == 46
CharUnderscore == 95
Base == 10

RECURSIVE Str(_)
\* str(n) for a non-negative integer: its decimal digits.
Str(n) == IF n < Base THEN <<CharZero + n>>
          ELSE Str(n \div Base) \o <<CharZero + (n % Base)>>

ExtNc == <<CharDot, 110, 99>>                                 \* ".nc"
ExtPng == <<CharDot, 112, 110, 103>>                           \* ".png"
AnimationPrefix ==
    <<97, 110, 105, 109, 97, 116, 105, 111, 110, CharUnderscore>>  \* "animation_"
RecombinedGeoPrefix ==
    <<114, 101, 99, 111, 109, 98, 105, 110, 101, 100, CharUnderscore,
      103, 101, 111, CharUnderscore>>                          \* "recombined_geo_"
RecombinedTimePrefix ==
    <<114, 101, 99, 111, 109, 98, 105, 110, 101, 100, CharUnderscore,
      116, 105, 109, 101, CharUnderscore>>                     \* "recombined_time_"

\* "_".join([a, b])
JoinUnderscore(a, b) == a \o <<CharUnderscore>> \o b

\* chunk_id = "_".join([str(geo_chunk_id), str(time_chunk_id)])
ChunkId(g, t) == JoinUnderscore(Str(g), Str(t))

\* os.path.join(task.get_temp_path(), chunk_id + ".nc"), relative to the
\* task's temporary directory
ChunkPath(g, t) == ChunkId(g, t) \o ExtNc

\* "recombined_geo_{}.nc".format(time_chunk_id)
RecombinedGeoPath(t) == RecombinedGeoPrefix \o Str(t) \o ExtNc

\* "recombined_time_{}.nc".format(geo_chunk_id)
RecombinedTimePath(g) == RecombinedTimePrefix \o Str(g) \o ExtNc

\* "animation_{}_{}.nc" without its geo_chunk_id
AnimationChunkPathNoGeo(g, step) == AnimationPrefix \o Str(step) \o ExtNc

\* "animation_{}_{}.nc".format(str(geo_chunk_id), str(base_index + time_index))
AnimationChunkPath(g, step) ==
    AnimationPrefix \o JoinUnderscore(Str(g), Str(step)) \o ExtNc

\* "animation_{}.nc".format(base_index + index)
AnimationStepPath(step) == AnimationPrefix \o Str(step) \o ExtNc

\* "animation_{}.png".format(time_chunk_id)
AnimationPngPath(t) == AnimationPrefix \o Str(t) \o ExtPng

\* Python's order on str: lexicographic by character code, a proper prefix
\* first.
RECURSIVE StrLess(_, _)
StrLess(a, b) ==
    IF b = <<>> THEN FALSE
    ELSE IF a = <<>> THEN TRUE
    ELSE IF Head(a) # Head(b) THEN Head(a) < Head(b)
    ELSE StrLess(Tail(a), Tail(b))

\* ------------------------------------------------------------------ state
VARIABLES
    app,          \* "coastal" (batch mode) or "water" (iterative mode)
    cfgTime,      \* task.get_chunk_size()['time']; 0 stands for None
    chainPc,      \* next task of the run() chain
    chainVal,     \* value the chain hands to its next task
    validated,    \* outcome of validate_parameters: "unk", "ok", "fail"
    task,         \* the task record as stored in the database
    nGeo,         \* len(geographic_chunks) of the plan
    nTime,        \* len(time_chunks) of the plan
    nSub,         \* water: number of date sub-ranges of each time chunk
    avail,        \* what the data source holds for each fetch
    exec,         \* executions of processing_task, per chunk and delivery
    result,       \* result stored for each processing_task
    rg,           \* recombine_geographic_chunks, per time chunk
    rt,           \* recombine_time_chunks
    cop,          \* create_output_products: its position
    copLocal,     \* create_output_products: the task record it read
    tempExists,   \* os.path.exists(task.get_temp_path())
    files,        \* files under the temporary directory: path -> content
    increments,   \* number of scenes_processed increments performed
    redelivered,  \* number of processing_task messages redelivered
    rcPc,         \* stand-alone recombine_time_chunks: "in", "out"
    rcApp,        \* stand-alone recombine_time_chunks: the application
    rcIn,         \* stand-alone recombine_time_chunks: its input list
    rcOut,        \* stand-alone recombine_time_chunks: what it returned
    wPc,          \* water time stage on its own: its position
    wIn,          \* water time stage: animation id, chunk size, scenes, inputs
    wFold,        \* water recombine_time_chunks: index, combined_data, metadata
    wPng,         \* animation_<step>.png files: step -> what the frame shows
    wGif,         \* the frames create_output_products appended, in order
    chPc,         \* coastal validation and chunking on their own:
                  \* "validate", "halt", "in", "out"
    chIn,         \* the task and the data cube: dates, years, time_start,
                  \* time_end, animation, the measurement lists supported
    chVal,        \* what validate_parameters did: status, return, measurements
    chOut,        \* coastal time chunking: the time_chunks built, or the error
    paPc,         \* the paths of a plan on their own: "plan", "processed",
                  \* "recombined"
    paIn,         \* the plan: app, chunk size, numbers of chunks, last window
    paOut         \* the paths each processing_task and each geographic
                  \* recombination writes and reads, and the step indices

vars == <<app, cfgTime, chainPc, chainVal, validated, task, nGeo, nTime, nSub,
          avail, exec, result, rg, rt, cop, copLocal, tempExists, files,
          increments, redelivered, rcPc, rcApp, rcIn, rcOut,
          wPc, wIn, wFold, wPng, wGif, chPc, chIn, chVal, chOut,
          paPc, paIn, paOut>>

pipeVars == <<app, cfgTime, chainPc, chainVal, validated, task, nGeo, nTime,
              nSub, avail, exec, result, rg, rt, cop, copLocal, tempExists,
              files, increments, redelivered>>

rcVars == <<rcPc, rcApp, rcIn, rcOut>>

waterVars == <<wPc, wIn, wFold, wPng, wGif>>

chunkVars == <<chPc, chIn, chVal, chOut>>

pathVars == <<paPc, paIn, paOut>>

\* The variables of the stages that are also run on their own.
aloneVars == <<rcVars, waterVars, chunkVars, pathVars>>

Apps == {"coastal", "water"}
GeoIds == 0 .. (MaxGeo - 1)
TimeIds == 0 .. (MaxTime - 1)
AllChunks == GeoIds \X TimeIds
Slots == 0 .. MaxRedeliver
\* One fetch of the data source: <<geo chunk, time chunk, range index>>.
Cells == GeoIds \X TimeIds \X (0 .. MaxWindow)

\* Every chunk id, whatever the plan.
PlanAll == AllChunks

\* The chunks of the plan, once chunking has run.
Plan == (0 .. (nGeo - 1)) \X (0 .. (nTime - 1))

\* Python dicts as functions.
EmptyDict == [k \in {} |-> {}]
\* dict.update / {**a, **b}: b's value wins on a shared key
DictUpdate(a, b) ==
    [k \in (DOMAIN a) \cup (DOMAIN b) |-> IF k \in DOMAIN b THEN b[k] ELSE a[k]]
\* task.combine_metadata: additive over the geographic chunks
CombineMetadata(a, b) ==
    [k \in (DOMAIN a) \cup (DOMAIN b) |->
        (IF k \in DOMAIN a THEN a[k] ELSE {}) \cup
        (IF k \in DOMAIN b THEN b[k] ELSE {})]

NoTask == [status |-> "", total_scenes |-> 0, scenes_processed |-> 0]
IdleExec == [pc |-> "idle", local |-> NoTask, pos |-> 0, acc |-> {},
             meta |-> EmptyDict]
\* What a task of the pipeline returns: None, or (path, metadata, ids).
Unset == [state |-> "unset", path |-> <<>>, meta |-> EmptyDict,
          geo |-> 0, time |-> 0, error |-> ""]
None == [Unset EXCEPT !.state = "none"]
Failure == [Unset EXCEPT !.state = "failure"]
Returned(path, meta, g, t) ==
    [state |-> "ok", path |-> path, meta |-> meta, geo |-> g, time |-> t,
     error |-> ""]
\* An uncaught exception ends the task in the FAILURE state.
Raised(err) == [Failure EXCEPT !.error = err]

\* (x if x is not None else 1) of task.get_chunk_size()['time']
SizeOrOne == IF cfgTime # 0 THEN cfgTime ELSE 1

\* --------------------------------------------------- the data source
\* The range index of the anchor period and of the comparison period of a
\* coastal_change time chunk [anchor year, other year].
AnchorCell(g) == <<g, 0, 0>>
ComparisonCell(g, t) == <<g, t, 1>>
WaterCell(g, t, i) == <<g, t, i>>

\* The outcomes dc.get_dataset_by_extent may give for a fetch: the data
\* source answers the same fetch the same way every time.
Fetch(cell) == IF avail[cell] = "unk" THEN {"yes", "no"} ELSE {avail[cell]}

\* The key under which metadata_from_dataset reports a fetched range (the
\* acquisition dates of the range), and what it reports for a geo chunk.
MetaKey(cell) == <<cell[2], cell[3]>>
MetadataFromDataset(meta, cell) ==
    CombineMetadata(meta, [k \in {MetaKey(cell)} |-> {cell[1]}])

\* ------------------------------------------------------- the task record
\* task.update_status(status, message): sets the status on the instance
\* and saves the instance, every field of it.
UpdateStatus(instance, status) == [instance EXCEPT !.status = status]

\* task.scenes_processed = F('scenes_processed') + 1: the value the
\* database stores is computed from the stored value, not from the value
\* the worker read.
ReadModifyWrite(readValue, storedValue) == readValue + 1
FIncrement(readValue, storedValue) == storedValue + 1

\* task.save() of an instance whose scenes_processed holds the F
\* expression: every other field is written as the worker read it.
SaveIncrement(instance, stored) ==
    [instance EXCEPT
        !.scenes_processed =
            FIncrement(instance.scenes_processed, stored.scenes_processed)]

\* ------------------------------------------------------------ the chain
\* if parameters is None: return None
ChunkingNeverPasses(v) == FALSE
ChunkingPassesNone(v) == v = "None"

\* if chunk_details is None: return None
StartPassesNone(v) == v = "None"

\* total_scenes = len(geographic_chunks) * len(time_chunks) * size
TotalScenes(g, t) == g * t * SizeOrOne

\* ------------------------------------------------------------ the files
NoFiles == [p \in {} |-> {}]
WriteFile(fs, path, content) ==
    [p \in (DOMAIN fs) \cup {path} |-> IF p = path THEN content ELSE fs[p]]

\* ------------------------------------------- recombine_geographic_chunks
\* chord/group semantics of the queue: the body of a chord is applied once
\* every task of its header group has returned (a value or None).
ChordReadyAny(t) ==
    \E g \in 0 .. (nGeo - 1) : result[<<g, t>>].state \in {"ok", "none"}
ChordReady(t) ==
    \A g \in 0 .. (nGeo - 1) : result[<<g, t>>].state \in {"ok", "none"}

\* The results of a header group, in the order of the group's tasks.
GroupResults(t) == [i \in 1 .. nGeo |-> result[<<i - 1, t>>]]

IsAnything(chunk) == TRUE
IsNotNone(chunk) == chunk.state # "none"
\* [chunk for chunk in total_chunks if chunk is not None]
NotNone(chunks) == SelectSeq(chunks, IsNotNone)

RECURSIVE FoldCombineMetadata(_)
\* metadata = task.combine_metadata(metadata, chunk[1]) over the chunks
FoldCombineMetadata(chunks) ==
    IF chunks = <<>> THEN EmptyDict
    ELSE CombineMetadata(FoldCombineMetadata(SubSeq(chunks, 1, Len(chunks) - 1)),
                         chunks[Len(chunks)].meta)

\* total_chunks[0] of an empty list
EmptyGroupOutcome == Raised("IndexError")

\* combine_geographic_chunks over the opened datasets
CombineGeographicChunks(chunks, fs) ==
    UNION {fs[chunks[i].path] : i \in 1 .. Len(chunks)}

\* What recombine_geographic_chunks returns for the list `chunks`, and the
\* dataset it writes.
RecombineGeographic(chunks, fs) ==
    LET total == NotNone(chunks) IN
    IF total = <<>> THEN [out |-> EmptyGroupOutcome, data |-> {}]
    ELSE IF \E i \in 1 .. Len(total) : total[i].path \notin DOMAIN fs
    THEN [out |-> Raised("FileNotFoundError"), data |-> {}]
    ELSE [out |-> Returned(RecombinedGeoPath(total[1].time),
                           FoldCombineMetadata(total),
                           total[1].geo, total[1].time),
          data |-> CombineGeographicChunks(total, fs)]

\* ------------------------------------------------- recombine_time_chunks
\* key=lambda x: x[0]: the first element of (path, metadata, ids)
SortKey(chunk) == chunk.path

RECURSIVE InsertSorted(_, _)
InsertSorted(x, s) ==
    IF s = <<>> THEN <<x>>
    ELSE IF StrLess(SortKey(x), SortKey(Head(s))) THEN <<x>> \o s
    ELSE <<Head(s)>> \o InsertSorted(x, Tail(s))

RECURSIVE Sorted(_)
\* sorted(chunks, key=lambda x: x[0]): ascending by key, stable
Sorted(chunks) ==
    IF chunks = <<>> THEN <<>>
    ELSE InsertSorted(chunks[Len(chunks)],
                      Sorted(SubSeq(chunks, 1, Len(chunks) - 1)))

RECURSIVE FoldUpdateMetadata(_)
\* metadata.update(chunk[1]) over the chunks, in order
FoldUpdateMetadata(chunks) ==
    IF chunks = <<>> THEN EmptyDict
    ELSE DictUpdate(FoldUpdateMetadata(SubSeq(chunks, 1, Len(chunks) - 1)),
                    chunks[Len(chunks)].meta)

\* The chunks in the order recombine_time_chunks processes them.
TotalChunks(a, chunks) ==
    IF a = "water" THEN Sorted(NotNone(chunks)) ELSE Sorted(chunks)

\* The time_chunk_id of each chunk, in processing order.
ProcessingOrder(a, chunks) ==
    [i \in 1 .. Len(TotalChunks(a, chunks)) |-> TotalChunks(a, chunks)[i].time]

\* What recombine_time_chunks returns for the list `chunks`.
RecombineTime(a, chunks) ==
    LET total == TotalChunks(a, chunks) IN
    IF total = <<>> THEN Raised("IndexError")
    ELSE Returned(IF a = "water" THEN RecombinedTimePath(total[1].geo)
                  ELSE total[Len(total)].path,
                  FoldUpdateMetadata(total), total[1].geo, total[1].time)

\* water_detection: the dataset recombine_time_chunks writes, the fold of
\* combine_intermediates over the opened datasets.
RecombineTimeData(chunks, fs) ==
    UNION {fs[chunks[i].path] : i \in 1 .. Len(chunks)}

\* The results of the geographic recombinations, in the order of the group.
TimeGroupResults == [i \in 1 .. nTime |-> rg[i - 1]]

\* ------------------------------------------- stages run on their own
\* The values of the variables of a stage that is not being run.
NoWaterInput ==
    [anim |-> "none", size |-> 1, n |-> 0, scenes |-> <<>>, chunks |-> <<>>]
NoFold == [index |-> 0, combined |-> <<>>, metadata |-> EmptyDict, ret |-> Unset]
WaterOff ==
    /\ wPc = "off"
    /\ wIn = NoWaterInput
    /\ wFold = NoFold
    /\ wPng = NoFiles
    /\ wGif = <<>>

NoChunking ==
    [dates |-> {}, years |-> {}, time_start |-> 0, time_end |-> 0,
     anim |-> "none", valid |-> {}]
NotValidated == [status |-> "", ret |-> "", measurements |-> ""]
NoTimeChunks == [error |-> "", time_chunks |-> <<>>]
ChunkOff ==
    /\ chPc = "off"
    /\ chIn = NoChunking
    /\ chVal = NotValidated
    /\ chOut = NoTimeChunks

NoPlan ==
    [app |-> "water", size |-> 0, nGeo |-> 0, nTime |-> 0, last |-> 0,
     iterative |-> FALSE, animated |-> FALSE]
NoPaths ==
    [proc |-> EmptyDict, steps |-> EmptyDict, geoWrites |-> EmptyDict,
     geoReads |-> EmptyDict]
PathsOff ==
    /\ paPc = "off"
    /\ paIn = NoPlan
    /\ paOut = NoPaths

\* ------------------------------------------------------------------ Init
Init ==
    /\ app \in Apps
    /\ cfgTime \in 0 .. MaxWindow
    /\ chainPc = "parse"
    /\ chainVal = "task_id"
    /\ validated = "unk"
    /\ task = NoTask
    /\ nGeo = 0
    /\ nTime = 0
    /\ nSub = [t \in TimeIds |-> 0]
    /\ avail = [c \in Cells |-> "unk"]
    /\ exec = [c \in AllChunks |-> [e \in Slots |-> IdleExec]]
    /\ result = [c \in AllChunks |-> Unset]
    /\ rg = [t \in TimeIds |-> Unset]
    /\ rt = Unset
    /\ cop = "waiting"
    /\ copLocal = NoTask
    /\ tempExists = TRUE
    /\ files = NoFiles
    /\ increments = 0
    /\ redelivered = 0
    /\ rcPc = "off"
    /\ rcApp = "coastal"
    /\ rcIn = <<>>
    /\ rcOut = [ret |-> Unset, order |-> <<>>]
    /\ WaterOff
    /\ ChunkOff
    /\ PathsOff

\* -------------------------------------------------------- the run() chain
ParseParametersFromTask ==
    /\ chainPc = "parse"
    /\ task' = UpdateStatus(task, "WAIT")
    /\ chainVal' = "parameters"
    /\ chainPc' = "validate"
    /\ UNCHANGED <<app, cfgTime, validated, nGeo, nTime, nSub, avail, exec,
                   result, rg, rt, cop, copLocal, tempExists, files, increments,
                   redelivered, aloneVars>>

ValidateParameters ==
    /\ chainPc = "validate"
    /\ \E acquisitions \in BOOLEAN :
         IF ~acquisitions
         THEN /\ task' = UpdateStatus(task, "ERROR")
              /\ validated' = "fail"
              /\ chainVal' = "None"
         ELSE /\ task' = UpdateStatus(task, "WAIT")
              /\ validated' = "ok"
              /\ chainVal' = "parameters"
    /\ chainPc' = "chunk"
    /\ UNCHANGED <<app, cfgTime, nGeo, nTime, nSub, avail, exec, result, rg,
                   rt, cop, copLocal, tempExists, files, increments, redelivered,
                   aloneVars>>

PerformTaskChunking ==
    /\ chainPc = "chunk"
    /\ IF ChunkingPassesNone(chainVal)
       THEN /\ chainVal' = "None"
            /\ UNCHANGED <<task, nGeo, nTime, nSub>>
       ELSE \E g \in 1 .. MaxGeo, t \in 1 .. MaxTime, last \in 1 .. SizeOrOne :
              /\ TotalScenes(g, t) <= MaxWork
              /\ app = "coastal" => last = 1
              /\ nGeo' = g
              /\ nTime' = t
              /\ nSub' = [tt \in TimeIds |->
                            IF tt >= t THEN 0
                            ELSE IF app = "coastal" THEN 1
                            ELSE IF tt = t - 1 THEN last ELSE SizeOrOne]
              /\ task' = UpdateStatus(task, "WAIT")
              /\ chainVal' = "chunk_details"
    /\ chainPc' = "start"
    /\ UNCHANGED <<app, cfgTime, validated, avail, exec, result, rg, rt, cop, copLocal,
                   tempExists, files, increments, redelivered, aloneVars>>

StartChunkProcessing ==
    /\ chainPc = "start"
    /\ IF StartPassesNone(chainVal)
       THEN /\ chainVal' = "None"
            /\ UNCHANGED <<task, exec>>
       ELSE /\ task' = UpdateStatus(
                  [task EXCEPT !.total_scenes = TotalScenes(nGeo, nTime),
                               !.scenes_processed = 0], "WAIT")
            /\ exec' = [c \in AllChunks |->
                          IF c \in Plan
                          THEN [exec[c] EXCEPT ![0].pc = "queued"]
                          ELSE exec[c]]
            /\ chainVal' = "True"
    /\ chainPc' = "end"
    /\ UNCHANGED <<app, cfgTime, validated, nGeo, nTime, nSub, avail, result,
                   rg, rt, cop, copLocal, tempExists, files, increments, redelivered,
                   aloneVars>>

\* True once start_chunk_processing has dispatched the pipeline.
Dispatched == chainPc = "end" /\ chainVal = "True"

\* -------------------------------------------------------- processing_task
\* The directory is taken to be there always.
TempPathNeverMissing == FALSE

\* if not os.path.exists(task.get_temp_path()): the directory is gone.
TempPathMissing == ~tempExists

\* A worker takes a processing_task message: it reads the task record and
\* returns None when the temporary directory is gone.
ProcessingTaskStart(c, e) ==
    /\ exec[c][e].pc = "queued"
    /\ IF TempPathMissing
       THEN /\ exec' = [exec EXCEPT ![c][e].pc = "done", ![c][e].local = task]
            /\ result' = [result EXCEPT ![c] = None]
       ELSE /\ exec' = [exec EXCEPT ![c][e] =
                          [pc |-> "running", local |-> task, pos |-> 0,
                           acc |-> {}, meta |-> EmptyDict]]
            /\ UNCHANGED result
    /\ UNCHANGED <<app, cfgTime, chainPc, chainVal, validated, task, nGeo,
                   nTime, nSub, avail, rg, rt, cop, copLocal, tempExists, files,
                   increments, redelivered, aloneVars>>

\* output_product.to_netcdf(path) and the return: the write raises when the
\* directory has been removed.
WriteAndReturn(c, e, content, meta) ==
    IF tempExists
    THEN /\ files' = WriteFile(files, ChunkPath(c[1], c[2]), content)
         /\ result' = [result EXCEPT
                          ![c] = Returned(ChunkPath(c[1], c[2]), meta, c[1], c[2])]
         /\ exec' = [exec EXCEPT ![c][e].pc = "done"]
    ELSE /\ result' = [result EXCEPT ![c] = Raised("FileNotFoundError")]
         /\ exec' = [exec EXCEPT ![c][e].pc = "failed"]
         /\ UNCHANGED files

\* if old_mosaic is None or new_mosaic is None
AnchorMissing(old, new) == old = "no"
EitherMissing(old, new) == old = "no" \/ new = "no"

\* if water_analysis is None
WaterAnalysisNever(acc) == FALSE
WaterAnalysisIsNone(acc) == acc = {}

\* coastal_change: both periods are fetched; None if either is empty,
\* otherwise the record is saved with the increment and the artifact written.
CoastalProcessingTask(c, e) ==
    /\ app = "coastal"
    /\ exec[c][e].pc = "running"
    /\ \E old \in Fetch(AnchorCell(c[1])), new \in Fetch(ComparisonCell(c[1], c[2])) :
         /\ avail' = [avail EXCEPT ![AnchorCell(c[1])] = old,
                                   ![ComparisonCell(c[1], c[2])] = new]
         /\ IF EitherMissing(old, new)
            THEN /\ exec' = [exec EXCEPT ![c][e].pc = "done"]
                 /\ result' = [result EXCEPT ![c] = None]
                 /\ UNCHANGED <<task, files, increments>>
            ELSE /\ task' = SaveIncrement(exec[c][e].local, task)
                 /\ increments' = increments + 1
                 /\ WriteAndReturn(c, e,
                        {AnchorCell(c[1]), ComparisonCell(c[1], c[2])},
                        DictUpdate(
                            MetadataFromDataset(EmptyDict, AnchorCell(c[1])),
                            MetadataFromDataset(EmptyDict,
                                                ComparisonCell(c[1], c[2]))))
    /\ UNCHANGED <<app, cfgTime, chainPc, chainVal, validated, nGeo, nTime,
                   nSub, rg, rt, cop, copLocal, tempExists, redelivered, aloneVars>>

\* water_detection: one pass of the loop over the chunk's date sub-ranges.
WaterProcessingIteration(c, e) ==
    /\ app = "water"
    /\ exec[c][e].pc = "running"
    /\ exec[c][e].pos < nSub[c[2]]
    /\ LET cell == WaterCell(c[1], c[2], exec[c][e].pos) IN
       \E data \in Fetch(cell) :
         /\ avail' = [avail EXCEPT ![cell] = data]
         /\ IF data = "no"
            THEN /\ exec' = [exec EXCEPT ![c][e].pos = @ + 1]
                 /\ UNCHANGED <<task, increments>>
            ELSE /\ exec' = [exec EXCEPT
                               ![c][e].pos = @ + 1,
                               ![c][e].acc = @ \cup {cell},
                               ![c][e].meta = MetadataFromDataset(@, cell)]
                 /\ task' = SaveIncrement(exec[c][e].local, task)
                 /\ increments' = increments + 1
    /\ UNCHANGED <<app, cfgTime, chainPc, chainVal, validated, nGeo, nTime,
                   nSub, result, rg, rt, cop, copLocal, tempExists, files, redelivered,
                   aloneVars>>

\* water_detection: after the loop, None if nothing was folded, otherwise
\* the accumulator is written.
WaterProcessingReturn(c, e) ==
    /\ app = "water"
    /\ exec[c][e].pc = "running"
    /\ exec[c][e].pos = nSub[c[2]]
    /\ IF WaterAnalysisIsNone(exec[c][e].acc)
       THEN /\ exec' = [exec EXCEPT ![c][e].pc = "done"]
            /\ result' = [result EXCEPT ![c] = None]
            /\ UNCHANGED files
       ELSE WriteAndReturn(c, e, exec[c][e].acc, exec[c][e].meta)
    /\ UNCHANGED <<app, cfgTime, chainPc, chainVal, validated, task, nGeo,
                   nTime, nSub, avail, rg, rt, cop, copLocal, tempExists, increments,
                   redelivered, aloneVars>>

\* acks_late: the message of a task that a worker has taken is delivered
\* again (the worker was lost, or the visibility timeout passed).
Redeliver(c) ==
    /\ c \in Plan
    /\ redelivered < MaxRedeliver
    /\ TotalScenes(nGeo, nTime) + redelivered < MaxWork
    /\ exec[c][0].pc \in {"running", "done"}
    /\ exec[c][redelivered + 1].pc = "idle"
    /\ exec' = [exec EXCEPT ![c][redelivered + 1].pc = "queued"]
    /\ redelivered' = redelivered + 1
    /\ UNCHANGED <<app, cfgTime, chainPc, chainVal, validated, task, nGeo,
                   nTime, nSub, avail, result, rg, rt, cop, copLocal, tempExists,
                   files, increments, aloneVars>>

\* ------------------------------------------------------ the fan-in stages
RecombineGeographicChunks(t) ==
    /\ Dispatched
    /\ t < nTime
    /\ rg[t].state = "unset"
    /\ ChordReady(t)
    /\ LET r == RecombineGeographic(GroupResults(t), files) IN
         /\ rg' = [rg EXCEPT ![t] = r.out]
         /\ files' = IF r.out.state = "ok"
                     THEN WriteFile(files, r.out.path, r.data)
                     ELSE files
    /\ UNCHANGED <<app, cfgTime, chainPc, chainVal, validated, task, nGeo,
                   nTime, nSub, avail, exec, result, rt, cop, copLocal, tempExists,
                   increments, redelivered, aloneVars>>

\* The header of the outer chord: every geographic recombination returned.
TimeChordReadyAny == \E t \in 0 .. (nTime - 1) : rg[t].state = "ok"
TimeChordReady == \A t \in 0 .. (nTime - 1) : rg[t].state = "ok"

RecombineTimeChunks ==
    /\ Dispatched
    /\ rt.state = "unset"
    /\ TimeChordReady
    /\ rt' = RecombineTime(app, TimeGroupResults)
    /\ files' = IF app = "water" /\ rt'.state = "ok"
                THEN WriteFile(files, rt'.path,
                               RecombineTimeData(TotalChunks(app, TimeGroupResults),
                                                 files))
                ELSE files
    /\ UNCHANGED <<app, cfgTime, chainPc, chainVal, validated, task, nGeo,
                   nTime, nSub, avail, exec, result, rg, cop, copLocal, tempExists,
                   increments, redelivered, aloneVars>>

\* create_output_products opens the dataset of its argument and reads the
\* task record.
CreateOutputStart ==
    /\ cop = "waiting"
    /\ rt.state = "ok"
    /\ rt.path \in DOMAIN files
    /\ copLocal' = task
    /\ cop' = "started"
    /\ UNCHANGED <<app, cfgTime, chainPc, chainVal, validated, task, nGeo,
                   nTime, nSub, avail, exec, result, rg, rt, tempExists,
                   files, increments, redelivered, aloneVars>>

\* create_output_products writes the products and saves the record it read
\* with task.update_status("OK", ...).
CreateOutputProducts ==
    /\ cop = "started"
    /\ task' = UpdateStatus(copLocal, "OK")
    /\ cop' = "written"
    /\ UNCHANGED <<app, cfgTime, chainPc, chainVal, validated, nGeo, nTime,
                   nSub, avail, exec, result, rg, rt, copLocal, tempExists,
                   files, increments, redelivered, aloneVars>>

\* shutil.rmtree(task.get_temp_path())
CreateOutputCleanup ==
    /\ cop = "written"
    /\ tempExists' = FALSE
    /\ files' = NoFiles
    /\ cop' = "done"
    /\ UNCHANGED <<app, cfgTime, chainPc, chainVal, validated, task, nGeo,
                   nTime, nSub, avail, exec, result, rg, rt, copLocal,
                   increments,
                   redelivered, aloneVars>>

\* Every step of the pipeline but a redelivery.
WorkNext ==
    \/ ParseParametersFromTask
    \/ ValidateParameters
    \/ PerformTaskChunking
    \/ StartChunkProcessing
    \/ \E c \in AllChunks, e \in Slots : ProcessingTaskStart(c, e)
    \/ \E c \in AllChunks, e \in Slots : CoastalProcessingTask(c, e)
    \/ \E c \in AllChunks, e \in Slots : WaterProcessingIteration(c, e)
    \/ \E c \in AllChunks, e \in Slots : WaterProcessingReturn(c, e)
    \/ \E t \in TimeIds : RecombineGeographicChunks(t)
    \/ RecombineTimeChunks
    \/ CreateOutputStart
    \/ CreateOutputProducts
    \/ CreateOutputCleanup

Next ==
    \/ WorkNext
    \/ \E c \in AllChunks : Redeliver(c)

Spec == Init /\ [][Next]_vars

\* ------------------------------------ recombine_time_chunks on its own
\* The result of recombine_geographic_chunks for time chunk t of a plan.
GeoRecombined(t) ==
    Returned(RecombinedGeoPath(t), [k \in {<<t, 0>>} |-> {0}], 0, t)

\* The results of a plan of n time chunks, in the order of the group.
InOrder(n) == [i \in 1 .. n |-> GeoRecombined(i - 1)]

Rotated(s, k) == [i \in 1 .. Len(s) |-> s[((i + k - 1) % Len(s)) + 1]]
Reversed(s) == [i \in 1 .. Len(s) |-> s[Len(s) + 1 - i]]
Swapped(s, k) ==
    [i \in 1 .. Len(s) |-> IF i = k THEN s[k + 1] ELSE IF i = k + 1 THEN s[k] ELSE s[i]]

\* Orders in which the list may be handed over: as dispatched, rotated,
\* reversed, and with two neighbours exchanged.
InputOrders(n) ==
    {Rotated(InOrder(n), k) : k \in 0 .. (n - 1)}
        \cup {Reversed(InOrder(n))}
        \cup {Swapped(InOrder(n), k) : k \in 1 .. (n - 1)}

\* Every time chunk of coastal_change also reports the anchor period; what
\* it reports is the geographic chunks that had data, here chunk 0 alone
\* but for time chunk k, where chunk 1 had data too.
WithAnchorPeriod(chunks, k) ==
    [i \in 1 .. Len(chunks) |->
        [chunks[i] EXCEPT
            !.meta = DictUpdate(@, [key \in {MetaKey(AnchorCell(0))} |->
                                      IF chunks[i].time = k THEN {0, 1} ELSE {0}])]]

\* The lists recombine_time_chunks is run on: metadata keys disjoint
\* between the time chunks, or one key shared by all of them.
RecombineInputs(n) ==
    InputOrders(n) \cup
        {WithAnchorPeriod(order, k) : order \in InputOrders(n), k \in 0 .. (n - 1)}

RecombineInit ==
    /\ app = "coastal"
    /\ cfgTime = 0
    /\ chainPc = "end"
    /\ chainVal = "True"
    /\ validated = "ok"
    /\ task = UpdateStatus(NoTask, "WAIT")
    /\ nGeo = 0
    /\ nTime = 0
    /\ nSub = [t \in TimeIds |-> 0]
    /\ avail = [c \in Cells |-> "unk"]
    /\ exec = [c \in AllChunks |-> [e \in Slots |-> IdleExec]]
    /\ result = [c \in AllChunks |-> Unset]
    /\ rg = [t \in TimeIds |-> Unset]
    /\ rt = Unset
    /\ cop = "waiting"
    /\ copLocal = NoTask
    /\ tempExists = TRUE
    /\ files = NoFiles
    /\ increments = 0
    /\ redelivered = 0
    /\ rcPc = "in"
    /\ rcApp \in Apps
    /\ \E n \in 1 .. MaxPlanTime : rcIn \in RecombineInputs(n)
    /\ rcOut = [ret |-> Unset, order |-> <<>>]
    /\ WaterOff
    /\ ChunkOff
    /\ PathsOff

RecombineCall ==
    /\ rcPc = "in"
    /\ rcOut' = [ret |-> RecombineTime(rcApp, rcIn),
                 order |-> ProcessingOrder(rcApp, rcIn)]
    /\ rcPc' = "out"
    /\ UNCHANGED <<pipeVars, rcApp, rcIn, waterVars, chunkVars, pathVars>>

RecombineNext == RecombineCall

SpecRecombine == RecombineInit /\ [][RecombineNext]_vars

\* --------------------------------- the water time stage on its own
\* One pixel of a water_detection dataset.  x / 0 is nan or inf, no error.
RECURSIVE Gcd(_, _)
Gcd(a, b) == IF b = 0 THEN a ELSE Gcd(b, a % b)

\* a / b as a fraction in lowest terms
Ratio(a, b) ==
    IF b = 0 THEN <<IF a = 0 THEN 0 ELSE 1, 0>>
    ELSE <<a \div Gcd(a, b), b \div Gcd(a, b)>>

Dataset(data, clean) ==
    [total_data |-> data, total_clean |-> clean,
     normalized_data |-> Ratio(data, clean)]

\* What one acquisition date holds for the pixel: nothing, or a scene whose
\* pixel is clear or not, and water or not.
NoScene == [data |-> FALSE, wofs |-> 0, clean |-> 0]
Scenes ==
    {NoScene} \cup
    {[data |-> TRUE, wofs |-> w, clean |-> c] : <<w, c>> \in {<<0, 0>>, <<0, 1>>, <<1, 1>>}}

AnimationIds == {"none", "scene", "cumulative"}

\* perform_timeseries_analysis(wofs_data, 'wofs', intermediate_product):
\* the running accumulator; None is the empty sequence.
PerformTimeseriesAnalysis(scene, intermediate) ==
    IF intermediate = <<>> THEN Dataset(scene.wofs, scene.clean)
    ELSE Dataset(intermediate[1].total_data + scene.wofs,
                 intermediate[1].total_clean + scene.clean)

RECURSIVE WaterAnalysis(_, _, _)
\* water_analysis of processing_task for time chunk t after the first k
\* passes of its loop: a pass without data is skipped.
WaterAnalysis(in, t, k) ==
    IF k = 0 THEN <<>>
    ELSE LET prev == WaterAnalysis(in, t, k - 1)
             scene == in.scenes[in.size * t + (k - 1)]
         IN  IF ~scene.data THEN prev
             ELSE <<PerformTimeseriesAnalysis(scene, prev)>>

RECURSIVE WaterMetadata(_, _, _)
\* metadata of processing_task for time chunk t after the first k passes
WaterMetadata(in, t, k) ==
    IF k = 0 THEN EmptyDict
    ELSE IF ~in.scenes[in.size * t + (k - 1)].data
         THEN WaterMetadata(in, t, k - 1)
         ELSE MetadataFromDataset(WaterMetadata(in, t, k - 1),
                                  WaterCell(0, t, k - 1))

\* animation_<step>.nc exists if processing_task analysed the step with an
\* animation requested.
AnimationNcExists(in, step) == in.anim # "none" /\ in.scenes[step].data

\* animation_<step>.nc: the scene itself, or water_analysis at that pass.
AnimationNc(in, step) ==
    IF in.anim = "scene"
    THEN Dataset(in.scenes[step].wofs, in.scenes[step].clean)
    ELSE WaterAnalysis(in, step \div in.size, (step % in.size) + 1)[1]

\* What recombine_geographic_chunks returned for time chunk t (one
\* geographic chunk), and the dataset at its path.
WaterGeoRecombined(in, t) ==
    Returned(RecombinedGeoPath(t), WaterMetadata(in, t, in.size), 0, t)
OpenDataset(in, chunk) == WaterAnalysis(in, chunk.time, in.size)[1]

\* combine_intermediates with = for += , and without the recomputed ratio
CombineOverwrite(dataset, intermediate) ==
    Dataset(dataset.total_data, dataset.total_clean)
CombineStaleRatio(dataset, intermediate) ==
    [total_data |-> intermediate.total_data + dataset.total_data,
     total_clean |-> intermediate.total_clean + dataset.total_clean,
     normalized_data |-> intermediate.normalized_data]

\* combine_intermediates(dataset, dataset_intermediate): the value of
\* dataset_intermediate afterwards
CombineIntermediates(dataset, intermediate) ==
    Dataset(intermediate.total_data + dataset.total_data,
            intermediate.total_clean + dataset.total_clean)

RECURSIVE GenerateAnimation(_, _, _, _, _)
\* generate_animation(index, combined_data): the png files after the
\* passes k .. size - 1 of its loop
GenerateAnimation(in, index, combined, png, k) ==
    IF k = in.size THEN png
    ELSE LET step == in.size * index + k
             animated == AnimationNc(in, step)
             shown == IF in.anim # "scene" /\ combined # <<>>
                      THEN CombineIntermediates(combined[1], animated)
                      ELSE animated
         IN  IF AnimationNcExists(in, step)
             THEN GenerateAnimation(in, index, combined,
                                    WriteFile(png, step, shown), k + 1)
             ELSE GenerateAnimation(in, index, combined, png, k + 1)

\* The pipeline as it stands when a stage is run on its own.
PipelineOff ==
    /\ app = "water"
    /\ cfgTime = 0
    /\ chainPc = "end"
    /\ chainVal = "True"
    /\ validated = "ok"
    /\ task = UpdateStatus(NoTask, "WAIT")
    /\ nGeo = 0
    /\ nTime = 0
    /\ nSub = [t \in TimeIds |-> 0]
    /\ avail = [c \in Cells |-> "unk"]
    /\ exec = [c \in AllChunks |-> [e \in Slots |-> IdleExec]]
    /\ result = [c \in AllChunks |-> Unset]
    /\ rg = [t \in TimeIds |-> Unset]
    /\ rt = Unset
    /\ cop = "waiting"
    /\ copLocal = NoTask
    /\ tempExists = TRUE
    /\ files = NoFiles
    /\ increments = 0
    /\ redelivered = 0

RecombineOff ==
    /\ rcPc = "off"
    /\ rcApp = "coastal"
    /\ rcIn = <<>>
    /\ rcOut = [ret |-> Unset, order |-> <<>>]

\* The plans the time stage is run on: n time chunks of `size` dates each,
\* every time chunk with at least one scene (its geographic recombination
\* returned), handed over in any order.
WaterInputs ==
    UNION {
      UNION {
        LET dates == 0 .. (n * size - 1) IN
        {[anim |-> a, size |-> size, n |-> n, scenes |-> sc,
          chunks |-> [i \in 1 .. n |->
              WaterGeoRecombined([anim |-> a, size |-> size, n |-> n,
                                  scenes |-> sc, chunks |-> <<>>],
                                 p[i] - 1)]] :
            a \in AnimationIds, p \in Permutations(1 .. n),
            sc \in {f \in [dates -> Scenes] :
                      \A t \in 0 .. (n - 1) :
                          \E k \in 0 .. (size - 1) : f[size * t + k].data}}
        : size \in {z \in 1 .. MaxWindow : n * z <= MaxSteps}}
      : n \in 1 .. MaxFoldTime}

\* Longer plans, one date per time chunk and water seen on every date,
\* handed over in ascending order.
WaterLongInputs ==
    {[anim |-> a, size |-> 1, n |-> n,
      scenes |-> [d \in 0 .. (n - 1) |-> [data |-> TRUE, wofs |-> 1, clean |-> 1]],
      chunks |-> [i \in 1 .. n |->
          WaterGeoRecombined(
              [anim |-> a, size |-> 1, n |-> n,
               scenes |-> [d \in 0 .. (n - 1) |->
                              [data |-> TRUE, wofs |-> 1, clean |-> 1]],
               chunks |-> <<>>],
              i - 1)]] :
        a \in AnimationIds, n \in (MaxFoldTime + 1) .. MaxPlanTime}

WaterInit ==
    /\ PipelineOff
    /\ RecombineOff
    /\ ChunkOff
    /\ PathsOff
    /\ wPc = "fold"
    /\ wIn \in WaterInputs \cup WaterLongInputs
    /\ wFold = NoFold
    /\ wPng = NoFiles
    /\ wGif = <<>>

\* One pass of the loop of recombine_time_chunks over total_chunks.
WaterFoldStep ==
    /\ wPc = "fold"
    /\ wFold.index < Len(TotalChunks("water", wIn.chunks))
    /\ LET chunk == TotalChunks("water", wIn.chunks)[wFold.index + 1]
           data == OpenDataset(wIn, chunk)
           combined == IF wFold.combined = <<>> THEN <<data>>
                       ELSE <<CombineIntermediates(data, wFold.combined[1])>>
       IN  /\ wFold' = [wFold EXCEPT
                           !.index = @ + 1,
                           !.combined = combined,
                           !.metadata = DictUpdate(@, chunk.meta)]
           /\ wPng' = IF wIn.anim = "none" THEN wPng
                      ELSE IF wFold.combined = <<>>
                      THEN GenerateAnimation(wIn, wFold.index, <<>>, wPng, 0)
                      ELSE GenerateAnimation(wIn, wFold.index, combined, wPng, 0)
    /\ UNCHANGED <<pipeVars, rcVars, chunkVars, pathVars, wPc, wIn, wGif>>

\* After the loop: combined_data is written and the tuple returned.
WaterFoldReturn ==
    /\ wPc = "fold"
    /\ wFold.index = Len(TotalChunks("water", wIn.chunks))
    /\ wFold' = [wFold EXCEPT
                    !.ret = RecombineTime("water", wIn.chunks)]
    /\ wPc' = "folded"
    /\ UNCHANGED <<pipeVars, rcVars, chunkVars, pathVars, wIn, wPng, wGif>>

\* for index in range(len(full_metadata)): the frames that exist, appended
FramesInRange(count, png) ==
    SelectSeq([i \in 1 .. count |-> i - 1], LAMBDA step : step \in DOMAIN png)

\* The animation loop of create_output_products on what the time stage
\* returned.
WaterCreateOutput ==
    /\ wPc = "folded"
    /\ wGif' = IF wIn.anim = "none" THEN <<>>
               ELSE FramesInRange(Cardinality(DOMAIN wFold.ret.meta), wPng)
    /\ wPc' = "done"
    /\ UNCHANGED <<pipeVars, rcVars, chunkVars, pathVars, wIn, wFold, wPng>>

WaterNext == WaterFoldStep \/ WaterFoldReturn \/ WaterCreateOutput

SpecWater == WaterInit /\ [][WaterNext]_vars

\* ---------------------------- coastal_change time chunking on its own
CoastalAnimationIds == {"none", "coastline_change", "coastal_change"}
YearIds == 0 .. (MaxYears - 1)

\* The instants of a year that the code names or that an acquisition can
\* fall on, in the order of the calendar: datetime(year, 1, 1), a day before
\* December 31, datetime(year, 12, 31) at 00:00, and later on December 31.
DayOrder == <<"jan1", "mid", "dec31", "late">>
DayIndex(d) == CHOOSE i \in 1 .. Len(DayOrder) : DayOrder[i] = d
DateLeq(a, b) ==
    \/ a.year < b.year
    \/ a.year = b.year /\ DayIndex(a.day) <= DayIndex(b.day)
Datetime(y, d) == [year |-> y, day |-> d]

\* dc.list_acquisition_dates(time=(lo, hi)): the acquisitions in the range.
ListAcquisitionDates(dates, lo, hi) ==
    {d \in dates : DateLeq(lo, d) /\ DateLeq(d, hi)}

\* parameters['time'] of parse_parameters_from_task.
TimeRange(in) ==
    <<Datetime(in.time_start, "jan1"), Datetime(in.time_end, "dec31")>>

\* (year, year.replace(year=year.year + 1)) for year in parameters['time'].
ValidationWindows(in) ==
    [i \in 1 .. 2 |->
        <<TimeRange(in)[i],
          Datetime(TimeRange(in)[i].year + 1, TimeRange(in)[i].day)>>]

\* A window of validate_parameters in which no acquisition was found.
EmptyWindows(in) ==
    {i \in 1 .. 2 : ListAcquisitionDates(in.dates, ValidationWindows(in)[i][1],
                                          ValidationWindows(in)[i][2]) = {}}

\* dc.validate_measurements(product, measurements): the product has them.
ValidateMeasurements(in, measurements) == measurements \in in.valid

\* validate_parameters: ERROR and None on a window without acquisitions;
\* else WAIT, the fallback list if the task's measurements are not the
\* product's, and the parameters are returned.
ValidateOutcome(in) ==
    IF EmptyWindows(in) # {}
    THEN [status |-> "ERROR", ret |-> "None", measurements |-> "task"]
    ELSE [status |-> "WAIT", ret |-> "params",
          measurements |-> IF ValidateMeasurements(in, "task")
                           THEN "task" ELSE "fallback"]

\* group_datetimes_by_year(dates): the years with acquisitions, each with
\* its dates; a dict iterates in the order of the dates, ascending.
GroupDatetimesByYear(in) == in.years

\* The years of dc.list_acquisition_dates(**parameters), the dates that
\* perform_task_chunking groups.
YearsInRange(dates, s, e) ==
    {d.year : d \in ListAcquisitionDates(dates, Datetime(s, "jan1"),
                                         Datetime(e, "dec31"))}

RECURSIVE PairsWith(_, _)
\* [[initial_year, grouped_dates[year]] for year in grouped_dates]
PairsWith(anchor, years) ==
    IF years = {} THEN <<>>
    ELSE LET first == CHOOSE y \in years : \A z \in years : y <= z
         IN  <<<<anchor, first>>>> \o PairsWith(anchor, years \ {first})

\* The pairs for every animation setting.
CoastalAllPairs(in) ==
    IF in.time_start \notin GroupDatetimesByYear(in)
    THEN [error |-> "KeyError", time_chunks |-> <<>>]
    ELSE [error |-> "",
          time_chunks |-> PairsWith(in.time_start,
                                    GroupDatetimesByYear(in) \ {in.time_start})]

\* time_chunks of perform_task_chunking: a missing dict key raises.
CoastalTimeChunks(in) ==
    IF in.anim = "none"
    THEN IF in.time_start \notin GroupDatetimesByYear(in)
            \/ in.time_end \notin GroupDatetimesByYear(in)
         THEN [error |-> "KeyError", time_chunks |-> <<>>]
         ELSE [error |-> "", time_chunks |-> <<<<in.time_start, in.time_end>>>>]
    ELSE IF in.time_start \notin GroupDatetimesByYear(in)
         THEN [error |-> "KeyError", time_chunks |-> <<>>]
         ELSE [error |-> "",
               time_chunks |-> PairsWith(in.time_start,
                                         GroupDatetimesByYear(in) \ {in.time_start})]

\* The acquisitions of the product: in each year up to the one after the
\* last year a task can name, none, one before December 31 or one on it.
AcquisitionDays == {"none", "mid", "late"}
DateSets ==
    {{Datetime(y, days[y]) : y \in {z \in 0 .. MaxYears : days[z] # "none"}} :
        days \in [0 .. MaxYears -> AcquisitionDays]}
MeasurementLists == {"task", "fallback"}

\* The tasks validation and chunking run on: a range of years, an
\* animation setting, the acquisitions and the lists the product supports.
ChunkingInputs ==
    {[dates |-> ds, years |-> YearsInRange(ds, s, e), time_start |-> s,
      time_end |-> e, anim |-> a, valid |-> v] :
        s \in YearIds, e \in YearIds, ds \in DateSets,
        a \in CoastalAnimationIds, v \in SUBSET MeasurementLists}

ChunkingInit ==
    /\ PipelineOff
    /\ RecombineOff
    /\ WaterOff
    /\ PathsOff
    /\ chPc = "validate"
    /\ chIn \in {in \in ChunkingInputs : in.time_start <= in.time_end}
    /\ chVal = NotValidated
    /\ chOut = NoTimeChunks

\* validate_parameters, then the chain goes on to perform_task_chunking.
ValidateCall ==
    /\ chPc = "validate"
    /\ chVal' = ValidateOutcome(chIn)
    /\ chPc' = IF ChunkingPassesNone(ValidateOutcome(chIn).ret)
              THEN "halt" ELSE "in"
    /\ UNCHANGED <<pipeVars, rcVars, waterVars, pathVars, chIn, chOut>>

ChunkingCall ==
    /\ chPc = "in"
    /\ chOut' = CoastalTimeChunks(chIn)
    /\ chPc' = "out"
    /\ UNCHANGED <<pipeVars, rcVars, waterVars, pathVars, chIn, chVal>>

ChunkingNext == ValidateCall \/ ChunkingCall

SpecChunking == ChunkingInit /\ [][ChunkingNext]_vars

\* ------------------------------------- the temporary files of one plan
\* task.get_chunk_size()['time'] if ... is not None else 1
ChunkSizeOrOne(size) == IF size # 0 THEN size ELSE 1

\* base_index without the chunk size
BaseIndexUnscaled(size, t) == t

\* base_index = (chunk size or 1) * time_chunk_id
BaseIndex(size, t) == ChunkSizeOrOne(size) * t

\* len(time_chunk): the windows of create_time_chunks hold the configured
\* number of dates, the last one possibly fewer.
WindowLength(in, t) ==
    IF t = in.nTime - 1 THEN in.last ELSE ChunkSizeOrOne(in.size)

\* len(times) of processing_task: one range per date of the window in
\* iterative mode, else one range for the whole window.
Times(in, t) ==
    IF in.app = "water" /\ in.iterative THEN WindowLength(in, t) ELSE 1

PlanGeoIds(in) == 0 .. (in.nGeo - 1)
PlanTimeIds(in) == 0 .. (in.nTime - 1)
PlanSubRanges(in) ==
    {p \in PlanTimeIds(in) \X (0 .. (MaxWindow - 1)) : p[2] < Times(in, p[1])}

\* base_index + time_index of processing_task
StepIndex(in, t, i) == BaseIndex(in.size, t) + i

\* The paths a processing_task writes when every range has data.
ProcessingWrites(in, g, t) ==
    {ChunkPath(g, t)} \cup
    (IF in.app = "water" /\ in.animated
     THEN {AnimationChunkPath(g, StepIndex(in, t, i)) : i \in 0 .. (Times(in, t) - 1)}
     ELSE {})

\* for index in range(chunk size or 1): the steps of time chunk t that
\* recombine_geographic_chunks looks for.
GeoSteps(in, t) ==
    {BaseIndex(in.size, t) + index : index \in 0 .. (ChunkSizeOrOne(in.size) - 1)}

\* The per-step files recombine_geographic_chunks opens if they exist.
GeoReads(in, t) ==
    IF in.app = "water" /\ in.animated
    THEN {AnimationChunkPath(g, step) : g \in PlanGeoIds(in), step \in GeoSteps(in, t)}
    ELSE {}

\* The paths recombine_geographic_chunks writes at most.
GeoWrites(in, t) ==
    {RecombinedGeoPath(t)} \cup
    (IF ~in.animated THEN {}
     ELSE IF in.app = "water"
     THEN {AnimationStepPath(step) : step \in GeoSteps(in, t)}
     ELSE {AnimationPngPath(t)})

\* The plans: an app, a chunk size (0 for None), the numbers of chunks, the
\* length of the last window, the mode and whether an animation is made.
\* Without a chunk size the windows hold one date each, or one window
\* holds every date.
PlanInputs ==
    {[app |-> a, size |-> z, nGeo |-> g, nTime |-> t, last |-> l,
      iterative |-> it, animated |-> an] :
        a \in Apps, z \in 0 .. MaxWindow, g \in 1 .. MaxPlanGeo,
        t \in 1 .. MaxPlanTime, l \in 1 .. MaxWindow,
        it \in BOOLEAN, an \in BOOLEAN}

PathsInit ==
    /\ PipelineOff
    /\ RecombineOff
    /\ WaterOff
    /\ ChunkOff
    /\ paPc = "plan"
    /\ paIn \in {in \in PlanInputs :
                   /\ in.size # 0 => in.last <= in.size
                   /\ in.size = 0 => (in.last = 1 \/ in.nTime = 1)
                   /\ in.app = "coastal" =>
                          in.size = 0 /\ in.last = 1 /\ ~in.iterative}
    /\ paOut = NoPaths

\* Every processing_task of the plan runs.
PathsProcessing ==
    /\ paPc = "plan"
    /\ paOut' = [paOut EXCEPT
          !.proc = [c \in PlanGeoIds(paIn) \X PlanTimeIds(paIn) |->
                       ProcessingWrites(paIn, c[1], c[2])],
          !.steps = [p \in PlanSubRanges(paIn) |-> StepIndex(paIn, p[1], p[2])]]
    /\ paPc' = "processed"
    /\ UNCHANGED <<pipeVars, rcVars, waterVars, chunkVars, paIn>>

\* Every recombine_geographic_chunks of the plan runs.
PathsRecombine ==
    /\ paPc = "processed"
    /\ paOut' = [paOut EXCEPT
          !.geoWrites = [t \in PlanTimeIds(paIn) |-> GeoWrites(paIn, t)],
          !.geoReads = [t \in PlanTimeIds(paIn) |-> GeoReads(paIn, t)]]
    /\ paPc' = "recombined"
    /\ UNCHANGED <<pipeVars, rcVars, waterVars, chunkVars, paIn>>

PathsNext == PathsProcessing \/ PathsRecombine

SpecPaths == PathsInit /\ [][PathsNext]_vars

\* ================================================================ claims
Executions == AllChunks \X Slots

\* Claim C1: recombine_geographic_chunks of time chunk t has started only
\* if every processing_task (g, t) of the plan has returned, with a result
\* or with None.
C1_GeoBarrier ==
    \A t \in TimeIds :
        rg[t].state # "unset" =>
            \A g \in 0 .. (nGeo - 1) : result[<<g, t>>].state # "unset"

\* Two sibling workers, one returned None and one a result, and the
\* recombination of their time chunk has run.
C1_Witness ==
    /\ nGeo = 2
    /\ rg[0].state = "ok"
    /\ result[<<0, 0>>].state = "none"
    /\ result[<<1, 0>>].state = "ok"

\* Claim C2 as stated: the stages follow one another as wholes, so that a
\* geographic recombination has started only when all processing of the
\* plan has returned, recombine_time_chunks only when every geographic
\* recombination has returned, and create_output_products only when
\* recombine_time_chunks has returned.
C2_StagesInSequence ==
    /\ (\E t \in TimeIds : rg[t].state # "unset") =>
           \A c \in Plan : result[c].state # "unset"
    /\ rt.state # "unset" => \A t \in 0 .. (nTime - 1) : rg[t].state = "ok"
    /\ cop # "waiting" => rt.state = "ok"

\* Claim C2, amended: processing starts only after chunking and dispatch;
\* the geographic recombination of a time chunk has started only when the
\* processing tasks of that time chunk have returned; recombine_time_chunks
\* only when the geographic recombination of every time chunk has returned;
\* create_output_products only when recombine_time_chunks has returned.
C2_StageOrder ==
    /\ (\E x \in Executions : exec[x[1]][x[2]].pc # "idle") =>
           (Dispatched /\ nGeo >= 1 /\ nTime >= 1)
    /\ \A t \in TimeIds :
           rg[t].state # "unset" =>
               \A g \in 0 .. (nGeo - 1) : result[<<g, t>>].state # "unset"
    /\ rt.state # "unset" => \A t \in 0 .. (nTime - 1) : rg[t].state = "ok"
    /\ cop # "waiting" => rt.state = "ok"

\* A plan of two time chunks has gone through every stage.
C2_Witness == nTime = 2 /\ cop = "done"

\* Claim C3: once no step of the pipeline is left to run, the status
\* recorded on the task is OK or ERROR.
C3_TerminalStatus ==
    (chainPc # "parse" /\ ~ENABLED WorkNext) => task.status \in {"OK", "ERROR"}

\* Every result of the header group of time chunk t is None.
AllNone(t) == \A g \in 0 .. (nGeo - 1) : result[<<g, t>>].state = "none"

\* Claim C4: when recombine_geographic_chunks runs on a group whose
\* results are all None, it signals the all-empty-group condition.
C4_AllEmptyGroupSignalled ==
    [][\A t \in TimeIds :
          (rg[t].state = "unset" /\ rg'[t].state # "unset" /\ AllNone(t))
              => rg'[t].error = "AllEmptyGroup"]_vars

\* Claim C5: the step in which validation fails records ERROR, and from
\* then on no step writes the task record, fixes a plan or dispatches a
\* processing_task.
C5_ValidationFailureHalts ==
    [][validated' = "fail" =>
          /\ task'.status = "ERROR"
          /\ validated = "fail" => task' = task
          /\ nGeo' = 0 /\ nTime' = 0
          /\ \A x \in Executions : exec'[x[1]][x[2]].pc = "idle"
          /\ chainVal' = "None"]_vars

\* Validation failed and the chain ran to its end.
C5_Witness == validated = "fail" /\ chainPc = "end" /\ task.status = "ERROR"

\* Claim C6: after start_chunk_processing, scenes_processed never
\* decreases and never exceeds total_scenes, and total_scenes keeps its
\* value.
C6_ProgressWithinTotal ==
    [][Dispatched =>
          /\ task'.scenes_processed >= task.scenes_processed
          /\ task'.scenes_processed <= task'.total_scenes
          /\ task'.total_scenes = task.total_scenes]_vars

\* Claim C7: while the processing_task executions are the only writers of
\* the record (create_output_products has not saved it yet),
\* scenes_processed equals the number of increments the executions have
\* performed since it was set to 0.
C7_NoLostIncrement ==
    (Dispatched /\ cop \in {"waiting", "started"}) =>
        task.scenes_processed = increments

\* Two executions both read scenes_processed = 0 and both have saved.
C7_Witness ==
    /\ task.scenes_processed = 2
    /\ \E x, y \in Executions :
         /\ x # y
         /\ exec[x[1]][x[2]].pc = "done" /\ exec[y[1]][y[2]].pc = "done"
         /\ result[x[1]].state = "ok" /\ result[y[1]].state = "ok"
         /\ exec[x[1]][x[2]].local.scenes_processed = 0
         /\ exec[y[1]][y[2]].local.scenes_processed = 0

\* Claim C8: a step of an execution of processing_task that is processing
\* (it found the temporary directory) a chunk whose result is already
\* stored leaves the stored result, the files and every field of the task
\* record but scenes_processed as they were.
C8_IdempotentReexecution ==
    [][\A x \in Executions :
          (/\ result[x[1]].state = "ok"
           /\ exec[x[1]][x[2]].pc = "running"
           /\ exec'[x[1]][x[2]] # exec[x[1]][x[2]])
              => /\ result'[x[1]] = result[x[1]]
                 /\ files' = files
                 /\ task'.status = task.status
                 /\ task'.total_scenes = task.total_scenes]_vars

\* Claim C9: recombine_time_chunks processes its inputs in ascending order
\* of time_chunk_id.
C9_AscendingTimeOrder ==
    rcPc = "out" =>
        \A i, j \in 1 .. Len(rcOut.order) :
            i < j => rcOut.order[i] < rcOut.order[j]

\* The input of recombine_time_chunks with the largest time_chunk_id.
LatestInput(chunks) ==
    CHOOSE c \in {chunks[i] : i \in 1 .. Len(chunks)} :
        \A i \in 1 .. Len(chunks) : chunks[i].time <= c.time

\* Claim C10: in coastal_change the path recombine_time_chunks returns is
\* the path of the input with the largest time_chunk_id.
C10_LatestArtifactKept ==
    (rcPc = "out" /\ rcApp = "coastal") => rcOut.ret.path = LatestInput(rcIn).path

RECURSIVE SumTotals(_, _)
\* The sums of total_data and total_clean over the datasets of the chunks
\* of a list, each entry counted once.
SumTotals(in, chunks) ==
    IF chunks = <<>> THEN [total_data |-> 0, total_clean |-> 0]
    ELSE LET rest == SumTotals(in, Tail(chunks))
             first == OpenDataset(in, Head(chunks))
         IN  [total_data |-> first.total_data + rest.total_data,
              total_clean |-> first.total_clean + rest.total_clean]

\* The time chunks of the plan in ascending order, whatever the order of
\* the input list.
PlanChunks(in) == [i \in 1 .. in.n |-> WaterGeoRecombined(in, i - 1)]

\* Claim C11: the dataset recombine_time_chunks writes (water_detection)
\* holds the sums of total_data and total_clean over the chunks of its
\* input list, each counted once; the sums are those of the plan's chunks
\* in ascending order, so every permutation of the list gives the same.
C11_TotalsAreSums ==
    wPc \in {"folded", "done"} =>
        /\ wFold.combined[1].total_data = SumTotals(wIn, wIn.chunks).total_data
        /\ wFold.combined[1].total_clean = SumTotals(wIn, wIn.chunks).total_clean
        /\ wFold.combined[1].total_data = SumTotals(wIn, PlanChunks(wIn)).total_data
        /\ wFold.combined[1].total_clean = SumTotals(wIn, PlanChunks(wIn)).total_clean

\* Three time chunks handed over latest first have been folded, and the
\* pixel was water in two of the three scenes.
C11_Witness ==
    /\ wPc = "folded"
    /\ wIn.n = 3
    /\ wIn.chunks[1].time = 2 /\ wIn.chunks[3].time = 0
    /\ wFold.combined[1].total_data = 2
    /\ wFold.combined[1].total_clean = 3

\* Claim C12: after every pass of the loop of recombine_time_chunks
\* (water_detection), the first included, normalized_data of combined_data
\* is total_data / total_clean, and the totals are the sums over the chunks
\* folded so far.
C12_RatioAfterEveryFold ==
    wFold.combined # <<>> =>
        LET folded == SubSeq(TotalChunks("water", wIn.chunks), 1, wFold.index)
            acc == wFold.combined[1]
        IN  /\ acc.total_data = SumTotals(wIn, folded).total_data
            /\ acc.total_clean = SumTotals(wIn, folded).total_clean
            /\ acc.normalized_data = Ratio(acc.total_data, acc.total_clean)

\* The first chunk was adopted with ratio 1, and the second pass brought
\* the ratio to 1/2.
C12_Witness ==
    /\ wPc = "fold"
    /\ wFold.index = 2
    /\ OpenDataset(wIn, TotalChunks("water", wIn.chunks)[1]).normalized_data = <<1, 1>>
    /\ wFold.combined[1].normalized_data = <<1, 2>>

\* Claim C15: with an animation requested, create_output_products appends
\* every frame animation_<step>.png that was rendered, once each and in
\* ascending step order.
C15_EveryFrameAssembled ==
    (wPc = "done" /\ wIn.anim # "none") =>
        wGif = FramesInRange(wIn.n * wIn.size, wPng)

RECURSIVE StepTotals(_, _)
\* The sums of the contributions of the scenes of steps 0 .. step.
StepTotals(in, step) ==
    IF step < 0 THEN [total_data |-> 0, total_clean |-> 0]
    ELSE [total_data |-> StepTotals(in, step - 1).total_data + in.scenes[step].wofs,
          total_clean |-> StepTotals(in, step - 1).total_clean + in.scenes[step].clean]

\* Claim C16: with an animation id other than 'none' and 'scene', the
\* frame of step s shows the totals of the scenes of steps 0 .. s, each
\* counted once.
C16_FrameShowsStepsSoFar ==
    wIn.anim = "cumulative" =>
        \A step \in DOMAIN wPng :
            /\ wPng[step].total_data = StepTotals(wIn, step).total_data
            /\ wPng[step].total_clean = StepTotals(wIn, step).total_clean

\* The metadata keys the chunks of a list report.
ReportedKeys(chunks) == UNION {DOMAIN chunks[i].meta : i \in 1 .. Len(chunks)}

\* The input with the largest time_chunk_id among those that report key.
LatestReporting(chunks, key) ==
    CHOOSE c \in {chunks[i] : i \in 1 .. Len(chunks)} :
        /\ key \in DOMAIN c.meta
        /\ \A i \in 1 .. Len(chunks) :
               key \in DOMAIN chunks[i].meta => chunks[i].time <= c.time

\* Claim C13: the metadata recombine_time_chunks returns has the keys its
\* inputs report and, for each key, the value of the input with the
\* largest time_chunk_id that reports it.
C13_LatestMetadataWins ==
    rcPc = "out" =>
        /\ DOMAIN rcOut.ret.meta = ReportedKeys(rcIn)
        /\ \A key \in ReportedKeys(rcIn) :
               rcOut.ret.meta[key] = LatestReporting(rcIn, key).meta[key]

\* The geographic chunks of time chunk t whose processing_task returned a
\* result, and their metadata merged key by key.
RealResults(t) == {g \in 0 .. (nGeo - 1) : result[<<g, t>>].state = "ok"}
MergedMetadata(t) ==
    [key \in UNION {DOMAIN result[<<g, t>>].meta : g \in RealResults(t)} |->
        UNION {result[<<g, t>>].meta[key] :
                 g \in {h \in RealResults(t) : key \in DOMAIN result[<<h, t>>].meta}}]

\* Claim C14: when recombine_geographic_chunks runs on a group with at
\* least one result that is not None, it returns; the dataset it writes and
\* the metadata it returns are built from the results that are not None and
\* from nothing else, and the time_chunk_id it returns is the group's.
C14_NoneIgnored ==
    [][\A t \in TimeIds :
          (rg[t].state = "unset" /\ rg'[t].state # "unset" /\ RealResults(t) # {})
              => /\ rg'[t].state = "ok"
                 /\ rg'[t].time = t
                 /\ rg'[t].meta = MergedMetadata(t)
                 /\ files'[rg'[t].path] =
                        UNION {files[result[<<g, t>>].path] : g \in RealResults(t)}]_vars

\* A group of one None and one result has been recombined: what was
\* written and returned is the result alone.
C14_Witness ==
    /\ nGeo = 2
    /\ rg[0].state = "ok"
    /\ result[<<0, 0>>].state = "ok"
    /\ result[<<1, 0>>].state = "none"
    /\ rg[0].path \in DOMAIN files
    /\ result[<<0, 0>>].path \in DOMAIN files
    /\ files[rg[0].path] = files[result[<<0, 0>>].path]
    /\ rg[0].meta = result[<<0, 0>>].meta

\* Claim C17: the status becomes OK only by the save of
\* create_output_products, which it does once; until then every status
\* written on a validated task is WAIT; the temporary directory is removed
\* only after that save; and the stages that read temporary artifacts run
\* only while the directory exists.
C17_SingleOkTransition ==
    [][/\ (task.status # "OK" /\ task'.status = "OK")
              => (cop = "started" /\ cop' = "written")
       /\ (validated' # "fail" /\ cop' \in {"waiting", "started"})
              => task'.status \in {"", "WAIT"}
       /\ (tempExists /\ ~tempExists') => cop = "written"
       /\ (rg' # rg \/ rt' # rt \/ (cop = "waiting" /\ cop' = "started"))
              => tempExists]_vars

\* Claim C18: the step of a coastal_change processing_task in which the
\* fetch of the anchor period or of the comparison period yields no data
\* returns None, writes no file and leaves the task record as it is.
C18_NoDataNoSideEffect ==
    [][\A x \in Executions :
          (/\ app = "coastal"
           /\ exec[x[1]][x[2]].pc = "running"
           /\ exec'[x[1]][x[2]].pc # "running"
           /\ \/ avail'[AnchorCell(x[1][1])] = "no"
              \/ avail'[ComparisonCell(x[1][1], x[1][2])] = "no")
              => /\ result'[x[1]] = None
                 /\ files' = files
                 /\ task' = task
                 /\ increments' = increments]_vars

\* The anchor period had data and the comparison period none: the task
\* returned None, no artifact was written and nothing was counted.
C18_Witness ==
    /\ app = "coastal"
    /\ exec[<<0, 0>>][0].pc = "done"
    /\ avail[AnchorCell(0)] = "yes"
    /\ avail[ComparisonCell(0, 0)] = "no"
    /\ result[<<0, 0>>] = None
    /\ ChunkPath(0, 0) \notin DOMAIN files
    /\ task.scenes_processed = 0

\* Claim C19: a pass of the loop of a water_detection processing_task over
\* a sub-range without data changes neither the record nor the accumulator
\* and the loop goes on; a pass over a sub-range with data increments
\* scenes_processed by one; the task returns after the last sub-range, and
\* it returns None, writing nothing, exactly if nothing was accumulated.
C19_SkipAndCount ==
    [][\A x \in Executions :
          (/\ app = "water"
           /\ exec[x[1]][x[2]].pc = "running"
           /\ exec'[x[1]][x[2]] # exec[x[1]][x[2]])
              => LET before == exec[x[1]][x[2]]
                     after == exec'[x[1]][x[2]]
                     cell == WaterCell(x[1][1], x[1][2], before.pos)
                 IN  IF after.pc = "running"
                     THEN /\ after.pos = before.pos + 1
                          /\ IF avail'[cell] = "no"
                             THEN task' = task /\ after.acc = before.acc
                             ELSE /\ task'.scenes_processed = task.scenes_processed + 1
                                  /\ after.acc = before.acc \cup {cell}
                                  /\ cell \notin before.acc
                     ELSE /\ before.pos = nSub[x[1][2]]
                          /\ task' = task
                          /\ result'[x[1]] = None <=> before.acc = {}
                          /\ before.acc = {} => files' = files]_vars

\* A chunk of two sub-ranges, the first without data: it was skipped, the
\* second was counted once and the chunk returned its artifact.
C19_Witness ==
    /\ app = "water"
    /\ nSub[0] = 2
    /\ exec[<<0, 0>>][0].pc = "done"
    /\ avail[WaterCell(0, 0, 0)] = "no"
    /\ avail[WaterCell(0, 0, 1)] = "yes"
    /\ task.scenes_processed = 1
    /\ result[<<0, 0>>].state = "ok"
    /\ files[ChunkPath(0, 0)] = {WaterCell(0, 0, 1)}

\* Claim C21: in coastal_change, validate_parameters passes only if the
\* start year and the end year both have an acquisition inside the task's
\* time range, so that perform_task_chunking finds both years among the
\* grouped dates, and it marks the task ERROR whenever either year has none.
C21_BothYearsValidated ==
    chPc # "validate" =>
        /\ chVal.ret = "params" =>
               {chIn.time_start, chIn.time_end} \subseteq GroupDatetimesByYear(chIn)
        /\ ~({chIn.time_start, chIn.time_end} \subseteq GroupDatetimesByYear(chIn))
               => chVal.status = "ERROR"

\* Claim C23: perform_task_chunking is never reached with a measurement
\* list that validate_measurements rejects: if the fallback list is not the
\* product's either, the task is marked ERROR and None is returned.
C23_UnsupportedFallbackHalts ==
    chPc # "validate" =>
        /\ chPc \in {"in", "out"} => ValidateMeasurements(chIn, chVal.measurements)
        /\ (EmptyWindows(chIn) = {} /\ chIn.valid = {}) =>
               chVal.status = "ERROR" /\ chVal.ret = "None" /\ chPc = "halt"

C22_AllScenesCounted ==
    (/\ cop \in {"written", "done"}
     /\ task.status = "OK"
     /\ redelivered = 0
     /\ \A c \in Plan : result[c].state = "ok")
        => task.scenes_processed = task.total_scenes

\* Claim C24: once create_output_products has recorded status OK, the
\* status of the task is OK in every later state, also when a redelivered
\* processing_task that read the record earlier saves it afterwards.
C24_OkIsStable ==
    [][task.status = "OK" => task'.status = "OK"]_vars

\* Claim C25: a processing_task that starts when the temporary directory
\* has been deleted returns None at once: it fetches nothing, writes no
\* file, does not recreate the directory and leaves the task record alone.
C25_LateStartChangesNothing ==
    [][\A x \in Executions :
          (/\ exec[x[1]][x[2]].pc = "queued"
           /\ exec'[x[1]][x[2]].pc # "queued"
           /\ ~tempExists)
              => /\ exec'[x[1]][x[2]].pc = "done"
                 /\ result'[x[1]] = None
                 /\ files' = files
                 /\ avail' = avail
                 /\ tempExists' = tempExists
                 /\ task' = task
                 /\ increments' = increments]_vars

\* A coastal chunk was processed and counted, the pipeline finished with OK
\* and removed the directory, then the redelivered task started and
\* returned None; the record is as create_output_products left it.
C25_Witness ==
    /\ app = "coastal"
    /\ cop = "done"
    /\ ~tempExists
    /\ exec[<<0, 0>>][0].pc = "done"
    /\ exec[<<0, 0>>][1].pc = "done"
    /\ exec[<<0, 0>>][1].local.status = "OK"
    /\ result[<<0, 0>>] = None
    /\ task.status = "OK"
    /\ task.scenes_processed = 1
    /\ files = NoFiles

\* Claim C26: stage instances that can run at the same time write
\* different files: processing tasks of different (geo, time) pairs,
\* geographic recombinations of different time chunks, and a geographic
\* recombination and a processing task.
C26_DisjointWrites ==
    paPc = "recombined" =>
        /\ \A c \in DOMAIN paOut.proc : \A p \in paOut.proc[c] :
               /\ \A d \in DOMAIN paOut.proc : d # c => p \notin paOut.proc[d]
               /\ \A t \in DOMAIN paOut.geoWrites : p \notin paOut.geoWrites[t]
        /\ \A t \in DOMAIN paOut.geoWrites : \A p \in paOut.geoWrites[t] :
               \A u \in DOMAIN paOut.geoWrites : u # t => p \notin paOut.geoWrites[u]

\* Twelve geo chunks, windows of two dates: chunk (1, 5) wrote step 11 as
\* animation_1_11.nc and chunk (11, 0) wrote step 1 as animation_11_1.nc.
C26_Witness ==
    /\ paPc = "recombined"
    /\ paIn.size = 2
    /\ {<<1, 5>>, <<11, 0>>} \subseteq DOMAIN paOut.proc
    /\ AnimationChunkPath(1, 11) \in paOut.proc[<<1, 5>>]
    /\ AnimationChunkPath(11, 1) \in paOut.proc[<<11, 0>>]
    /\ AnimationStepPath(11) \in paOut.geoWrites[5]

\* Claim C29: in water_detection the step index base_index + time_index is
\* different for different (time chunk, range) pairs of a plan, so no
\* animation_<geo>_<step> file is written for two ranges of a geo chunk,
\* and the step files recombine_geographic_chunks opens for time chunk t
\* were written by processing tasks of time chunk t.
C29_StepIndexInjective ==
    (paPc = "recombined" /\ paIn.app = "water") =>
        /\ \A p \in DOMAIN paOut.steps : \A q \in DOMAIN paOut.steps :
               paOut.steps[p] = paOut.steps[q] => p = q
        /\ \A c \in DOMAIN paOut.proc :
               Cardinality(paOut.proc[c]) =
                   1 + (IF paIn.animated THEN Times(paIn, c[2]) ELSE 0)
        /\ \A t \in DOMAIN paOut.geoReads : \A c \in DOMAIN paOut.proc :
               paOut.geoReads[t] \cap paOut.proc[c] # {} => c[2] = t

\* Three windows of two dates, the last with one date: the steps are 0 to
\* 4, and the recombination of time chunk 2 opens the file of step 4.
C29_Witness ==
    /\ paPc = "recombined"
    /\ paIn.app = "water"
    /\ paIn.size = 2
    /\ paIn.nTime = 3
    /\ paIn.last = 1
    /\ paOut.steps[<<2, 0>>] = 4
    /\ Cardinality(DOMAIN paOut.steps) = 5
    /\ AnimationChunkPath(0, 4) \in paOut.geoReads[2] \cap paOut.proc[<<0, 2>>]

\* Claim C27: in water_detection recombine_time_chunks, the frames
\* rendered in the pass that folds the time chunk with id t are those of
\* the steps size * t .. size * t + size - 1 of that chunk for which a
\* step file exists, whatever the order and the number of the chunks.
C27_FramesOfOwnChunk ==
    [][(wPc = "fold" /\ wFold'.index = wFold.index + 1) =>
          LET chunk == TotalChunks("water", wIn.chunks)[wFold.index + 1]
              own == {wIn.size * chunk.time + k : k \in 0 .. (wIn.size - 1)}
          IN  {step \in DOMAIN wPng' :
                  step \notin DOMAIN wPng \/ wPng'[step] # wPng[step]}
              = {step \in own : AnimationNcExists(wIn, step)}]_vars

\* Claim C28: start_chunk_processing dispatches one processing_task per
\* (geo chunk, time chunk) pair of the plan and no other, each with the
\* positions of its chunks as ids; recombine_geographic_chunks runs once
\* per time chunk of the plan, recombine_time_chunks and
\* create_output_products once per task.
C28_OneTaskPerPair ==
    [][/\ (chainPc = "start" /\ chainVal' = "True") =>
            /\ {x \in Executions : exec'[x[1]][x[2]].pc # "idle"}
                   = {<<c, 0>> : c \in (0 .. (nGeo - 1)) \X (0 .. (nTime - 1))}
            /\ Cardinality({x \in Executions : exec'[x[1]][x[2]].pc = "queued"})
                   = nGeo * nTime
       /\ \A c \in AllChunks :
            /\ (exec[c][0].pc = "idle" /\ exec'[c][0].pc # "idle") => chainPc = "start"
            /\ result'[c].state = "ok" =>
                   result'[c].geo = c[1] /\ result'[c].time = c[2]
       /\ \A t \in TimeIds :
            /\ rg[t].state # "unset" => rg'[t] = rg[t]
            /\ rg'[t].state # "unset" => t < nTime
       /\ rt.state # "unset" => rt' = rt
       /\ cop' # cop =>
            <<cop, cop'>> \in {<<"waiting", "started">>, <<"started", "written">>,
                               <<"written", "done">>}]_vars

\* A plan of two geo chunks and one time chunk ran to its end without a
\* redelivery: two processing tasks, one geographic recombination, one
\* time recombination and create_output_products.
C28_Witness ==
    /\ nGeo = 2
    /\ nTime = 1
    /\ redelivered = 0
    /\ exec[<<0, 0>>][0].pc = "done"
    /\ exec[<<1, 0>>][0].pc = "done"
    /\ exec[<<0, 1>>][0].pc = "idle"
    /\ result[<<1, 0>>].state = "ok"
    /\ result[<<1, 0>>].geo = 1
    /\ rg[0].state = "ok"
    /\ rg[1].state = "unset"
    /\ rt.state = "ok"
    /\ cop = "done"

====
